---- MODULE Spec2Model ----
(***************************************************************************)
(* Model of django-auditlog: the thread-local request bridge               *)
(* (auditlog/middleware.py) and the LogEntry table with its manager        *)
(* (auditlog/models.py).                                                   *)
(*                                                                         *)
(* Python's None is the empty set and a present value x is {x}, so that    *)
(* optional values of any type compare without mixing types.  Text is a    *)
(* sequence of one-character strings, so that split(',') and [:255] are    *)
(* computed on characters.                                                 *)
(***************************************************************************)
EXTENDS Integers, Sequences, FiniteSets, TLC

VARIABLES
  table,          \* the rows of the LogEntry table
  nextId,         \* the next auto-increment id of the table
  thread_locals,  \* _thread_locals.request, per thread (None when never set)
  lastReq,        \* history: the request last handed to process_request, per thread
  inFlight,       \* history: whether the host is handling a request on the thread
  lastCall        \* history: the operation that produced this state, and its outcome

vars == <<table, nextId, thread_locals, lastReq, inFlight, lastCall>>

----------------------------------------------------------------------------
(* Bounds *)

MaxEntries == 2        \* rows inserted in a run of SpecLog
MaxQueryEntries == 3   \* rows inserted in a run of SpecQuery
MaxBridgeEntries == 2  \* rows inserted in a run of Spec
MaxPk == 1             \* integer primary keys are 1..MaxPk

(* Program constants *)

CREATE == 0
UPDATE == 1
DELETE == 2
PathLimit == 255

----------------------------------------------------------------------------
(* Optional values *)

None == {}
Some(x) == {x}
The(o) == CHOOSE x \in o : TRUE

Threads == {"t1", "t2"}

----------------------------------------------------------------------------
(* Text *)

Digit(d) == CASE d = 0 -> "0" [] d = 1 -> "1" [] d = 2 -> "2" [] d = 3 -> "3"
              [] d = 4 -> "4" [] d = 5 -> "5" [] d = 6 -> "6" [] d = 7 -> "7"
              [] d = 8 -> "8" [] d = 9 -> "9"

RECURSIVE IntToText(_)
IntToText(n) == IF n < 10 THEN <<Digit(n)>>
                ELSE Append(IntToText(n \div 10), Digit(n % 10))

\* s.split(',')[0]: the characters before the first comma, all of s without one
RECURSIVE SplitFirst(_)
SplitFirst(s) == IF s = <<>> \/ Head(s) = "," THEN <<>>
                 ELSE <<Head(s)>> \o SplitFirst(Tail(s))

\* s[:n]
Slice(s, n) == SubSeq(s, 1, IF Len(s) < n THEN Len(s) ELSE n)

----------------------------------------------------------------------------
(* The request bridge: auditlog/middleware.py *)

\* A request: its user ("None" without one, "anon" for an anonymous user),
\* its META address entries (a function on the keys present) and its full path.
NoUser == "None"
IsAuthenticated(user) == user # "anon"

GetCurrentRequest(t) == thread_locals[t]

GetCurrentUser(t) ==
  LET request == GetCurrentRequest(t) IN
  IF request # None /\ The(request).user # NoUser /\ IsAuthenticated(The(request).user)
  THEN Some(The(request).user)
  ELSE None

\* the client-IP header tested before the forwarded-for header
IpSourceClientFirst(META) ==
  IF "Client-IP" \in DOMAIN META THEN Some(META["Client-IP"])
  ELSE IF "HTTP_X_FORWARDED_FOR" \in DOMAIN META THEN Some(META["HTTP_X_FORWARDED_FOR"])
  ELSE IF "REMOTE_ADDR" \in DOMAIN META THEN Some(META["REMOTE_ADDR"])
  ELSE None

\* the META entry get_current_ip reads; None when the lookup raises KeyError
IpSource(META) ==
  IF "HTTP_X_FORWARDED_FOR" \in DOMAIN META THEN Some(META["HTTP_X_FORWARDED_FOR"])
  ELSE IF "Client-IP" \in DOMAIN META THEN Some(META["Client-IP"])
  ELSE IF "REMOTE_ADDR" \in DOMAIN META THEN Some(META["REMOTE_ADDR"])
  ELSE None

\* [raised |-> TRUE] for the KeyError, else the returned value (None or an address)
GetCurrentIp(t) ==
  LET request == GetCurrentRequest(t) IN
  IF request = None THEN [raised |-> FALSE, value |-> None]
  ELSE LET ip == IpSource(The(request).META) IN
       IF ip = None THEN [raised |-> TRUE, value |-> None]
       ELSE [raised |-> FALSE, value |-> Some(SplitFirst(The(ip)))]

\* the path without the [:255]
GetCurrentPathUntruncated(t) ==
  LET request == GetCurrentRequest(t) IN
  IF request # None THEN The(request).path ELSE <<>>

GetCurrentPath(t) ==
  LET request == GetCurrentRequest(t) IN
  IF request # None THEN Slice(The(request).path, PathLimit) ELSE <<>>

----------------------------------------------------------------------------
(* The LogEntry manager: auditlog/models.py *)

\* A primary key value of a target: unset, a Python int, or any other value,
\* which is known by the text the object_pk column stores for it.
NonePk == [kind |-> "none"]
IntPk(n) == [kind |-> "int", val |-> n]
TextPk(s) == [kind |-> "text", val |-> s]

GetPkValue(instance) == instance.pk

IsInt(pk) == pk.kind = "int"

\* the text a TextField stores for a value
ToText(pk) == IF pk.kind = "int" THEN IntToText(pk.val) ELSE pk.val

Get(kwargs, key, default) == IF key \in DOMAIN kwargs THEN kwargs[key] ELSE default

SetDefault(kwargs, key, value) ==
  IF key \in DOMAIN kwargs THEN kwargs ELSE (key :> value) @@ kwargs

\* self.filter(content_type=ct, object_id=n)
FilterById(rows, ct, n) ==
  {r \in rows : r.content_type = ct /\ r.object_id = Some(n)}

\* the object_pk lookup without its content_type condition
FilterByPkAnyType(rows, ct, pk) ==
  IF pk.kind = "none" THEN {}
  ELSE {r \in rows : r.object_pk = ToText(pk)}

\* self.filter(content_type=ct, object_pk=pk): a None value is an IS NULL
\* lookup, and the column holds no NULL
FilterByPk(rows, ct, pk) ==
  IF pk.kind = "none" THEN {}
  ELSE {r \in rows : r.content_type = ct /\ r.object_pk = ToText(pk)}

\* the defaults log_create fills in
WithDefaults(instance, kwargs) ==
  LET pk == GetPkValue(instance)
      kw == SetDefault(SetDefault(SetDefault(kwargs,
                "content_type", instance.content_type),
                "object_pk", pk),
                "object_repr", instance)
  IN IF IsInt(pk) THEN SetDefault(kw, "object_id", pk.val) ELSE kw

\* the dedup entered for any action
IsCreateActionAny(kw) == Get(kw, "action", None) # None

IsCreateAction(kw) == Get(kw, "action", None) = Some(CREATE)

\* the rows the dedup step of log_create deletes
DedupRows(rows, kw) ==
  IF "object_id" \in DOMAIN kw
       /\ FilterById(rows, kw["content_type"], kw["object_id"]) # {}
  THEN FilterById(rows, kw["content_type"], kw["object_id"])
  ELSE FilterByPk(rows, kw["content_type"], Get(kw, "object_pk", TextPk(<<>>)))

\* the dedup step without its test of the action
AfterDedupAlways(rows, kw) == rows \ DedupRows(rows, kw)

AfterDedup(rows, kw) ==
  IF IsCreateAction(kw) THEN rows \ DedupRows(rows, kw) ELSE rows

\* the row self.create(**kwargs) inserts on thread t
NewRow(t, kw, id) ==
  [id |-> id,
   content_type |-> kw["content_type"],
   object_pk |-> ToText(kw["object_pk"]),
   object_id |-> IF "object_id" \in DOMAIN kw THEN Some(kw["object_id"]) ELSE None,
   object_repr |-> kw["object_repr"],
   action |-> The(kw["action"]),
   changes |-> The(kw["changes"]),
   actor |-> Get(kw, "actor", GetCurrentUser(t)),
   ip_address |-> Get(kw, "ip_address", GetCurrentIp(t).value),
   request_path |-> Get(kw, "request_path", GetCurrentPath(t))]

\* self.create(**kwargs) raises: the ip_address default raises KeyError, or
\* object_pk (not nullable) is None
CreateRaises(t, kw) ==
  \/ "ip_address" \notin DOMAIN kw /\ GetCurrentIp(t).raised
  \/ kw["object_pk"].kind = "none"

NoCall == [op |-> "init"]

\* the dedup step run before the test of the change set
LogCreateOutcomeDedupFirst(t, instance, kwargs, rows, id) ==
  LET changes == Get(kwargs, "changes", None)
      kw == WithDefaults(instance, kwargs)
  IN IF changes = None
     THEN [rows |-> AfterDedup(rows, kw), raised |-> FALSE, result |-> None]
     ELSE IF CreateRaises(t, kw)
     THEN [rows |-> AfterDedup(rows, kw), raised |-> TRUE, result |-> None]
     ELSE [rows |-> AfterDedup(rows, kw) \cup {NewRow(t, kw, id)},
           raised |-> FALSE, result |-> Some(id)]

\* what log_create does to the rows, and what it returns to its caller
LogCreateOutcome(t, instance, kwargs, rows, id) ==
  LET changes == Get(kwargs, "changes", None)
      kw == WithDefaults(instance, kwargs)
  IN IF changes = None
     THEN [rows |-> rows, raised |-> FALSE, result |-> None]
     ELSE IF CreateRaises(t, kw)
     THEN [rows |-> AfterDedup(rows, kw), raised |-> TRUE, result |-> None]
     ELSE [rows |-> AfterDedup(rows, kw) \cup {NewRow(t, kw, id)},
           raised |-> FALSE, result |-> Some(id)]

LogCreate(t, instance, kwargs) ==
  \E out \in {LogCreateOutcome(t, instance, kwargs, table, nextId)} :
  /\ table' = out.rows
  /\ nextId' = IF out.result = None THEN nextId ELSE nextId + 1
  /\ lastCall' = [op |-> "log_create", thread |-> t, instance |-> instance,
                  kwargs |-> kwargs, raised |-> out.raised, result |-> out.result]
  /\ UNCHANGED <<thread_locals, lastReq, inFlight>>

\* the rows get_for_object returns
GetForObjectRows(rows, instance) ==
  LET pk == GetPkValue(instance) IN
  IF IsInt(pk) THEN FilterById(rows, instance.content_type, pk.val)
  ELSE FilterByPk(rows, instance.content_type, pk)

GetForObject(t, instance) ==
  /\ lastCall' = [op |-> "get_for_object", thread |-> t, instance |-> instance,
                  result |-> {r.id : r \in GetForObjectRows(table, instance)}]
  /\ UNCHANGED <<table, nextId, thread_locals, lastReq, inFlight>>

----------------------------------------------------------------------------
(* AuditlogMiddleware and the host's request handling *)

\* the request kept in one module-level attribute shared by all threads
ProcessRequestShared(t, request) ==
  /\ thread_locals' = [u \in Threads |-> Some(request)]
  /\ lastReq' = [lastReq EXCEPT ![t] = Some(request)]
  /\ inFlight' = [inFlight EXCEPT ![t] = TRUE]
  /\ lastCall' = [op |-> "process_request", thread |-> t, request |-> request]
  /\ UNCHANGED <<table, nextId>>

ProcessRequest(t, request) ==
  /\ thread_locals' = [thread_locals EXCEPT ![t] = Some(request)]
  /\ lastReq' = [lastReq EXCEPT ![t] = Some(request)]
  /\ inFlight' = [inFlight EXCEPT ![t] = TRUE]
  /\ lastCall' = [op |-> "process_request", thread |-> t, request |-> request]
  /\ UNCHANGED <<table, nextId>>

\* the host finishes the request of thread t; the middleware has no hook for it
FinishRequest(t) ==
  /\ inFlight[t]
  /\ inFlight' = [inFlight EXCEPT ![t] = FALSE]
  /\ lastCall' = [op |-> "finish_request", thread |-> t]
  /\ UNCHANGED <<table, nextId, thread_locals, lastReq>>

\* a bridge read on thread t
ReadBridge(t) ==
  /\ lastCall' = [op |-> "read_bridge", thread |-> t,
                  request |-> GetCurrentRequest(t),
                  user |-> GetCurrentUser(t),
                  ip |-> GetCurrentIp(t),
                  path |-> GetCurrentPath(t)]
  /\ UNCHANGED <<table, nextId, thread_locals, lastReq, inFlight>>

----------------------------------------------------------------------------
(* Inputs *)

\* content types are only compared for equality, so two of them stand for all
ContentTypes == {1, 2}

PkValues == {NonePk, TextPk(<<>>)}
            \cup {IntPk(n) : n \in 1..MaxPk}
            \cup {TextPk(IntToText(n)) : n \in 1..MaxPk}

Instances == [content_type : ContentTypes, pk : PkValues]

Actions == {CREATE, UPDATE, DELETE}

SomeChanges == <<"{", "}">>

\* the keyword arguments of a call: action, changes unless left out, and
\* the explicit actor, ip_address and request_path named in extras
ExplicitValue(key) ==
  CASE key = "actor" -> Some("u2")
    [] key = "ip_address" -> Some(<<"9">>)
    [] key = "request_path" -> <<"/", "x">>

Kwargs(action, changes, extras) ==
  LET base == IF changes = None THEN ("action" :> Some(action))
              ELSE ("action" :> Some(action)) @@ ("changes" :> changes)
  IN [k \in extras |-> ExplicitValue(k)] @@ base

ShortPath == <<"/">>
LongPath == [i \in 1..(PathLimit + 1) |-> "/"]

Request(user, META, path) == [user |-> user, META |-> META, path |-> path]

\* the requests of Spec: an authenticated user behind no proxy, an anonymous
\* user behind a proxy with a path over the limit, and a request without a
\* user and without any address entry
Requests ==
  { Request("u1", ("REMOTE_ADDR" :> <<"1">>), ShortPath),
    Request("anon", ("HTTP_X_FORWARDED_FOR" :> <<"2", ",", "1">>)
                      @@ ("REMOTE_ADDR" :> <<"1">>), LongPath),
    Request(NoUser, <<>>, ShortPath) }

HeaderValues == {<<"1">>, <<"2">>, <<"1", ",", "2">>, <<"2", ",", "1">>}
HeaderNames == {"HTTP_X_FORWARDED_FOR", "Client-IP", "REMOTE_ADDR"}

\* the requests of SpecIp: every combination of the three address entries
IpRequests ==
  { Request(NoUser, META, ShortPath) :
      META \in UNION {[names -> HeaderValues] : names \in SUBSET HeaderNames} }

ExtrasSets == {{}, {"actor", "ip_address", "request_path"}}

Init ==
  /\ table = {}
  /\ nextId = 1
  /\ thread_locals = [t \in Threads |-> None]
  /\ lastReq = [t \in Threads |-> None]
  /\ inFlight = [t \in Threads |-> FALSE]
  /\ lastCall = NoCall

\* Spec: requests and log writes interleaved on two threads, one target
Next ==
  \/ \E t \in Threads, r \in Requests : ProcessRequest(t, r)
  \/ \E t \in Threads : FinishRequest(t)
  \/ \E t \in Threads : ReadBridge(t)
  \/ \E t \in Threads, a \in {CREATE, UPDATE}, c \in {None, Some(SomeChanges)},
        e \in ExtrasSets :
        /\ nextId <= MaxBridgeEntries
        /\ LogCreate(t, [content_type |-> 1, pk |-> IntPk(1)], Kwargs(a, c, e))

Spec == Init /\ [][Next]_vars

\* SpecLog: the manager on one thread outside any request, every target
NextLog ==
  \E i \in Instances, a \in Actions, c \in {None, Some(SomeChanges)} :
     /\ nextId <= MaxEntries
     /\ LogCreate("t1", i, Kwargs(a, c, {}))

SpecLog == Init /\ [][NextLog]_vars

\* SpecQuery: log writes and get_for_object
NextQuery ==
  \/ \E i \in Instances, a \in Actions, c \in {None, Some(SomeChanges)} :
        /\ nextId <= MaxQueryEntries
        /\ LogCreate("t1", i, Kwargs(a, c, {}))
  \/ \E i \in Instances : GetForObject("t1", i)

SpecQuery == Init /\ [][NextQuery]_vars

\* SpecIp: get_current_ip on every combination of address entries
NextIp ==
  \/ \E r \in IpRequests : ProcessRequest("t1", r)
  \/ ReadBridge("t1")

SpecIp == Init /\ [][NextIp]_vars

----------------------------------------------------------------------------
(* Vocabulary of the properties *)

\* row r has the identity of the target: its content type, and its key in
\* either column (object_id for an integer key, object_pk for the key's text)
HasIdentity(r, instance) ==
  /\ r.content_type = instance.content_type
  /\ \/ instance.pk.kind = "int" /\ r.object_id = Some(instance.pk.val)
     \/ instance.pk.kind # "none" /\ r.object_pk = ToText(instance.pk)

IsLogCreate(call) == call.op = "log_create"
Returned(call) == IsLogCreate(call) /\ ~call.raised /\ call.result # None
CallAction(call) == The(call.kwargs["action"])
ChangesSupplied(call) == "changes" \in DOMAIN call.kwargs
NoExplicitContext(call) ==
  DOMAIN call.kwargs \cap {"actor", "ip_address", "request_path"} = {}
RowOf(rows, id) == CHOOSE r \in rows : r.id = id
RowsEver == nextId - 1

\* the user a request authenticates, its resolved client address, its path
RequestActor(request) ==
  IF request.user \in {NoUser, "anon"} THEN None ELSE Some(request.user)
HasAddress(request) == DOMAIN request.META # {}
ResolvedIp(request) == SplitFirst(The(IpSource(request.META)))

----------------------------------------------------------------------------
(* C1: immediately after log_create(target, action=CREATE, changes) returns,
   exactly one stored row has the target's identity (content type and key, in
   object_id or in object_pk), and it is the row just created. *)
C1_OneRowAfterCreate ==
  (Returned(lastCall) /\ CallAction(lastCall) = CREATE)
    => {r \in table : HasIdentity(r, lastCall.instance)}
         = {RowOf(table, The(lastCall.result))}

(* C2: log_create with action UPDATE or DELETE and changes supplied removes no
   stored row, and when it returns the table is the old table plus exactly the
   one new row. *)
C2_UpdateDeleteAccumulate ==
  [][(IsLogCreate(lastCall') /\ ChangesSupplied(lastCall')
        /\ CallAction(lastCall') \in {UPDATE, DELETE})
      => /\ table \subseteq table'
         /\ Returned(lastCall')
              => /\ Cardinality(table') = Cardinality(table) + 1
                 /\ table' \ table = {RowOf(table', The(lastCall'.result))}]_vars

C2_Witness ==
  /\ Returned(lastCall)
  /\ CallAction(lastCall) \in {UPDATE, DELETE}
  /\ \E r \in table : /\ r.id # The(lastCall.result)
                      /\ HasIdentity(r, lastCall.instance)

(* C3: log_create without a change set returns nothing and leaves the table as
   it was, for every action, CREATE included. *)
C3_NoChangesNoOp ==
  [][(IsLogCreate(lastCall') /\ ~ChangesSupplied(lastCall'))
      => /\ table' = table
         /\ nextId' = nextId
         /\ lastCall'.result = None
         /\ ~lastCall'.raised]_vars

C3_Witness ==
  /\ IsLogCreate(lastCall)
  /\ ~ChangesSupplied(lastCall)
  /\ CallAction(lastCall) = CREATE
  /\ \E r \in table : HasIdentity(r, lastCall.instance)

(* C10: the dedup step of log_create with action CREATE removes only rows that
   have the new row's identity: every row of another content type, or of the
   same content type with another key in both columns, is still stored after
   the call, also for a target whose key is unset or the empty text. *)
C10_DedupKeepsOtherIdentities ==
  [][(IsLogCreate(lastCall') /\ ChangesSupplied(lastCall')
        /\ CallAction(lastCall') = CREATE)
      => \A r \in table : ~HasIdentity(r, lastCall'.instance) => r \in table']_vars

C10_Witness ==
  /\ Returned(lastCall)
  /\ CallAction(lastCall) = CREATE
  /\ lastCall.instance.pk = TextPk(<<>>)
  /\ \E r \in table : /\ r.content_type = lastCall.instance.content_type
                      /\ ~HasIdentity(r, lastCall.instance)

(* C7: get_for_object(target) returns exactly the stored rows that have the
   target's identity, for integer and for non-integer keys. *)
C7_GetForObjectExact ==
  lastCall.op = "get_for_object"
    => lastCall.result = {r.id : r \in {x \in table : HasIdentity(x, lastCall.instance)}}

(* C4: a stored row is never modified once inserted, and it leaves the table
   only in a log_create call with changes whose action is CREATE. *)
C4_RowsImmutable ==
  [][\A r \in table :
       /\ \A x \in table' : x.id = r.id => x = r
       /\ r \notin table' => /\ IsLogCreate(lastCall')
                             /\ ChangesSupplied(lastCall')
                             /\ CallAction(lastCall') = CREATE
                             /\ HasIdentity(r, lastCall'.instance)]_vars

C4_Witness ==
  /\ lastCall.op = "process_request"
  /\ table # {}
  /\ RowsEver > Cardinality(table)
  /\ \E r \in table : r.actor # GetCurrentUser(lastCall.thread)

(* C5, as claimed: a row created without explicit actor, ip_address and
   request_path carries the authenticated user, the resolved client address and
   the path of the request last set on the creating thread, and a later
   process_request leaves the stored rows alone. *)
C5_RowCarriesRequestPath ==
  [][/\ (Returned(lastCall') /\ NoExplicitContext(lastCall')
           /\ lastReq[lastCall'.thread] # None)
        => LET request == The(lastReq[lastCall'.thread])
               row == RowOf(table', The(lastCall'.result))
           IN /\ row.actor = RequestActor(request)
              /\ row.ip_address = Some(ResolvedIp(request))
              /\ row.request_path = request.path
     /\ lastCall'.op = "process_request" => table' = table]_vars

(* C5, amended: the same, with request_path the first 255 characters of the
   request's path. *)
C5_RowCarriesTruncatedPath ==
  [][/\ (Returned(lastCall') /\ NoExplicitContext(lastCall')
           /\ lastReq[lastCall'.thread] # None)
        => LET request == The(lastReq[lastCall'.thread])
               row == RowOf(table', The(lastCall'.result))
           IN /\ row.actor = RequestActor(request)
              /\ row.ip_address = Some(ResolvedIp(request))
              /\ Len(row.request_path) <= PathLimit
              /\ row.request_path = SubSeq(request.path, 1, Len(row.request_path))
              /\ Len(request.path) <= PathLimit => row.request_path = request.path
     /\ lastCall'.op = "process_request" => table' = table]_vars

C5_Witness ==
  /\ lastCall.op = "process_request"
  /\ \E r \in table, t \in Threads \ {lastCall.thread} :
        /\ lastReq[t] # None
        /\ Len(The(lastReq[t]).path) > PathLimit
        /\ r.request_path = Slice(The(lastReq[t]).path, PathLimit)
        /\ r.ip_address = Some(ResolvedIp(The(lastReq[t])))
        /\ r.request_path # GetCurrentPath(lastCall.thread)

(* C6: the actor of a row created without an explicit actor is null whenever
   the creating thread's request is unauthenticated or no request is in flight
   on that thread at the call, also after an earlier request there finished. *)
C6_ActorNullOutsideRequest ==
  (Returned(lastCall) /\ "actor" \notin DOMAIN lastCall.kwargs
     /\ \/ ~inFlight[lastCall.thread]
        \/ RequestActor(The(lastReq[lastCall.thread])) = None)
    => RowOf(table, The(lastCall.result)).actor = None

(* C9: what a bridge read observes on a thread is the request most recently
   passed to process_request on that thread, or none if there was none, and a
   process_request on one thread changes no other thread's observation. *)
C9_ThreadLocalRequest ==
  [][/\ \A t \in Threads : GetCurrentRequest(t)' = lastReq'[t]
     /\ lastCall'.op = "read_bridge"
          => LET seen == lastReq'[lastCall'.thread] IN
             /\ lastCall'.request = seen
             /\ lastCall'.user = IF seen = None THEN None ELSE RequestActor(The(seen))
             /\ seen = None => lastCall'.ip.value = None /\ lastCall'.path = <<>>
             /\ (seen # None /\ HasAddress(The(seen)))
                  => lastCall'.ip.value = Some(ResolvedIp(The(seen)))
             /\ seen # None => lastCall'.path = Slice(The(seen).path, PathLimit)
     /\ lastCall'.op = "process_request"
          => \A t \in Threads \ {lastCall'.thread} :
               GetCurrentRequest(t)' = GetCurrentRequest(t)]_vars

C9_Witness ==
  /\ lastCall.op = "read_bridge"
  /\ lastCall.request # None
  /\ \E t \in Threads \ {lastCall.thread} :
       lastReq[t] # None /\ lastReq[t] # lastCall.request

(* C8, as claimed: get_current_ip returns the first comma-separated entry of
   the forwarded-for header if present, otherwise the value of the client-IP
   header if present, otherwise the remote address. *)
C8_IpPriorityWholeValue ==
  (lastCall.op = "read_bridge" /\ lastCall.request # None
     /\ HasAddress(The(lastCall.request)))
    => LET META == The(lastCall.request).META IN
       lastCall.ip.value =
         Some(IF "HTTP_X_FORWARDED_FOR" \in DOMAIN META
                THEN SplitFirst(META["HTTP_X_FORWARDED_FOR"])
              ELSE IF "Client-IP" \in DOMAIN META THEN META["Client-IP"]
              ELSE META["REMOTE_ADDR"])

(* C8, amended: get_current_ip returns the first comma-separated entry of the
   forwarded-for header if present, otherwise of the client-IP header if
   present, otherwise of the remote address. *)
C8_IpPriorityFirstEntry ==
  (lastCall.op = "read_bridge" /\ lastCall.request # None
     /\ HasAddress(The(lastCall.request)))
    => LET META == The(lastCall.request).META IN
       lastCall.ip.value =
         Some(IF "HTTP_X_FORWARDED_FOR" \in DOMAIN META
                THEN SplitFirst(META["HTTP_X_FORWARDED_FOR"])
              ELSE IF "Client-IP" \in DOMAIN META THEN SplitFirst(META["Client-IP"])
              ELSE SplitFirst(META["REMOTE_ADDR"]))

C8_Witness ==
  /\ lastCall.op = "read_bridge"
  /\ lastCall.request # None
  /\ LET META == The(lastCall.request).META IN
     /\ DOMAIN META = {"Client-IP", "REMOTE_ADDR"}
     /\ SplitFirst(META["Client-IP"]) # META["Client-IP"]
     /\ SplitFirst(META["Client-IP"]) # SplitFirst(META["REMOTE_ADDR"])
     /\ lastCall.ip.value = Some(SplitFirst(META["Client-IP"]))

====
